---------------------------- MODULE Spec2Model ----------------------------
(***************************************************************************)
(* Model of separate_words_enhanced (src/g/a.py, lines 51-118).            *)
(*                                                                         *)
(* A Python string is a sequence of one-character strings.  The model      *)
(* follows the function statement by statement: the four re.sub boundary   *)
(* rules, the space clean-up and split, the loop over the parts, the       *)
(* known-word shortcut, the greedy longest-match scan of a part, the       *)
(* decision between the segments and the original part, and the join.      *)
(***************************************************************************)
EXTENDS Integers, Sequences, FiniteSets

VARIABLES
    text,                 \* argument of separate_words_enhanced
    word_list_set,        \* argument of separate_words_enhanced
    pc,                   \* position in the function body
    initial_parts,        \* line 67
    part_idx,             \* number of parts the for loop of line 72 has taken
    part,                 \* loop variable of line 72
    final_parts,          \* line 69
    segmented_sub_parts,  \* line 83
    current_pos,          \* line 84
    result,               \* returned string (lines 57 and 118)
    second_call           \* TRUE once the result has been passed in again

vars == <<text, word_list_set, pc, initial_parts, part_idx, part, final_parts,
          segmented_sub_parts, current_pos, result, second_call>>

-----------------------------------------------------------------------------
(* Bounds of the checked input space *)

MaxLen == 4

-----------------------------------------------------------------------------
(* Characters and character classes of the regular expressions *)

LowerCase == <<"a","b","c","d","e","f","g","h","i","j","k","l","m",
               "n","o","p","q","r","s","t","u","v","w","x","y","z">>

UpperCase == <<"A","B","C","D","E","F","G","H","I","J","K","L","M",
               "N","O","P","Q","R","S","T","U","V","W","X","Y","Z">>

Digits == {"0","1","2","3","4","5","6","7","8","9"}

Space == " "

IsLower(c) == \E k \in DOMAIN LowerCase : LowerCase[k] = c

IsUpper(c) == \E k \in DOMAIN UpperCase : UpperCase[k] = c

IsLetter(c) == IsLower(c) \/ IsUpper(c)

IsDigit(c) == c \in Digits

\* str.lower() on one character
lower_char(c) ==
    IF IsUpper(c)
    THEN LowerCase[CHOOSE k \in DOMAIN UpperCase : UpperCase[k] = c]
    ELSE c

\* str.lower()
lower(s) == [k \in DOMAIN s |-> lower_char(s[k])]

-----------------------------------------------------------------------------
(* String helpers *)

\* s[a:b] of Python, 0-based, half-open
Slice(s, a, b) == SubSeq(s, a + 1, b)

\* re.sub(pattern, ' ', s) for a zero-width pattern matching at the positions
\* in cuts (position p lies between s[p-1] and s[p], 0-based)
InsertSpaces(s, cuts) ==
    LET RECURSIVE F(_)
        F(k) == IF k > Len(s) THEN <<>>
                ELSE (IF (k - 1) \in cuts THEN <<Space>> ELSE <<>>)
                     \o <<s[k]>> \o F(k + 1)
    IN F(1)

\* (?<=[A-Z])(?=[a-z]): the two classes exchanged
Rule1CutsSwapped(s) ==
    {p \in 1..(Len(s) - 1) : IsUpper(s[p]) /\ IsLower(s[p + 1])}

\* (?<=[a-z])(?=[A-Z])
Rule1Cuts(s) ==
    {p \in 1..(Len(s) - 1) : IsLower(s[p]) /\ IsUpper(s[p + 1])}

\* (?<=[A-Z])(?=[A-Z]): the lookahead for a lowercase letter left out
Rule2CutsNoLookahead(s) ==
    {p \in 1..(Len(s) - 1) : IsUpper(s[p]) /\ IsUpper(s[p + 1])}

\* (?<=[A-Z])(?=[A-Z][a-z])
Rule2Cuts(s) ==
    {p \in 1..(Len(s) - 2) :
        IsUpper(s[p]) /\ IsUpper(s[p + 1]) /\ IsLower(s[p + 2])}

\* (?<=[a-zA-Z])(?=\d)
Rule3Cuts(s) ==
    {p \in 1..(Len(s) - 1) : IsLetter(s[p]) /\ IsDigit(s[p + 1])}

\* (?<=\d)(?=[a-zA-Z])
Rule4Cuts(s) ==
    {p \in 1..(Len(s) - 1) : IsDigit(s[p]) /\ IsLetter(s[p + 1])}

\* re.sub(r' +', ' ', s)
CollapseSpaces(s) ==
    LET RECURSIVE F(_)
        F(k) == IF k > Len(s) THEN <<>>
                ELSE IF s[k] = Space /\ k > 1 /\ s[k - 1] = Space THEN F(k + 1)
                ELSE <<s[k]>> \o F(k + 1)
    IN F(1)

\* str.strip()
strip(s) ==
    LET keep == {k \in DOMAIN s : s[k] # Space}
    IN IF keep = {} THEN <<>>
       ELSE LET lo == CHOOSE k \in keep : \A j \in keep : k <= j
                hi == CHOOSE k \in keep : \A j \in keep : k >= j
            IN SubSeq(s, lo, hi)

\* str.split(' '): one piece per separator, empty pieces kept
split(s) ==
    LET RECURSIVE F(_, _)
        F(k, cur) == IF k > Len(s) THEN <<cur>>
                     ELSE IF s[k] = Space THEN <<cur>> \o F(k + 1, <<>>)
                     ELSE F(k + 1, Append(cur, s[k]))
    IN F(1, <<>>)

\* ' '.join(parts)
RECURSIVE join(_)
join(parts) ==
    IF parts = <<>> THEN <<>>
    ELSE IF Len(parts) = 1 THEN parts[1]
    ELSE parts[1] \o <<Space>> \o join(Tail(parts))

\* Lines 61-67
InitialParts(t) ==
    LET t1 == InsertSpaces(t, Rule1Cuts(t))
        t2 == InsertSpaces(t1, Rule2Cuts(t1))
        t3 == InsertSpaces(t2, Rule3Cuts(t2))
        temp_processed == InsertSpaces(t3, Rule4Cuts(t3))
    IN split(strip(CollapseSpaces(temp_processed)))

\* Line 78
KnownWord(p, kb) == lower(p) \in kb

\* Lines 86-96 keeping the first match instead of the longest
BestMatchEndFirst(p, pos, kb) ==
    LET RECURSIVE F(_, _)
        F(i, best) ==
            IF i >= Len(p) THEN best
            ELSE IF lower(Slice(p, pos, i + 1)) \in kb /\ best = -1
                 THEN F(i + 1, i + 1)
                 ELSE F(i + 1, best)
    IN F(pos, -1)

\* Lines 86-96: the for loop over i, returning best_match_end (-1: no match)
BestMatchEnd(p, pos, kb) ==
    LET RECURSIVE F(_, _)
        F(i, best) ==
            IF i >= Len(p) THEN best
            ELSE LET sub == Slice(p, pos, i + 1)
                     best_match_word == IF best = -1 THEN <<>>
                                        ELSE Slice(p, pos, best)
                 IN IF lower(sub) \in kb /\ Len(sub) > Len(best_match_word)
                    THEN F(i + 1, i + 1)
                    ELSE F(i + 1, best)
    IN F(pos, -1)

\* Line 106 with the slice started one character late
RemainderOffByOne(p, pos) == Slice(p, pos + 1, Len(p))

\* Line 106
Remainder(p, pos) == Slice(p, pos, Len(p))

\* Lines 112-115 with the threshold one too high
EmittedMoreThanTwo(p, segs) == IF Len(segs) > 2 THEN segs ELSE <<p>>

\* Lines 112-115: what a scanned part adds to final_parts
Emitted(p, segs) == IF Len(segs) > 1 THEN segs ELSE <<p>>

-----------------------------------------------------------------------------
(* Inputs *)

Alphabet == {"a", "b", "A", "1", Space}

RECURSIVE Strings(_, _)
Strings(A, n) ==
    IF n = 0 THEN {<<>>}
    ELSE LET shorter == Strings(A, n - 1)
         IN shorter \cup {Append(s, c) : s \in {x \in shorter : Len(x) = n - 1},
                                         c \in A}

WordPool == {<<>>, <<"a">>, <<"a", "a">>, <<"a", "b">>, <<"1">>}

them == <<"t","h","e","m">>
goldfishxyz == <<"g","o","l","d","f","i","s","h","x","y","z">>
qzqzqz == <<"q","z","q","z","q","z">>
HTMLParserGame2000 ==
    <<"H","T","M","L","P","a","r","s","e","r","G","a","m","e","2","0","0","0">>

kbThem == {<<"t","h","e">>, them, <<"h","e","m">>}
kbGoldFish == {<<"g","o","l","d">>, <<"f","i","s","h">>}
kbHtml == {<<"h","t","m","l">>, <<"p","a","r","s","e","r">>, <<"g","a","m","e">>}

Examples ==
    {<<them, kbThem>>, <<goldfishxyz, kbGoldFish>>, <<qzqzqz, kbGoldFish>>,
     <<HTMLParserGame2000, kbHtml>>}

Inputs == (Strings(Alphabet, MaxLen) \X SUBSET WordPool) \cup Examples

\* Inputs of the runs checked for termination: the characters and word sets
\* that steer the scan loop
ScanAlphabet == {"a", "b", Space}

ScanWordSets ==
    {{<<>>}, {<<>>, <<"a">>}, {<<"a">>, <<"a", "b">>}, {<<"a">>, <<"b">>}}

ScanInputs == (Strings(ScanAlphabet, MaxLen) \X ScanWordSets) \cup Examples

-----------------------------------------------------------------------------
(* The function as a state machine *)

InitFrom(inputs) ==
    /\ \E in \in inputs : text = in[1] /\ word_list_set = in[2]
    /\ pc = "start"
    /\ initial_parts = <<>>
    /\ part_idx = 0
    /\ part = <<>>
    /\ final_parts = <<>>
    /\ segmented_sub_parts = <<>>
    /\ current_pos = 0
    /\ result = <<>>
    /\ second_call = FALSE

Init == InitFrom(Inputs)

ScanInit == InitFrom(ScanInputs)

\* Lines 56-57
ReturnEmpty ==
    /\ pc = "start"
    /\ text = <<>>
    /\ result' = <<>>
    /\ pc' = "done"
    /\ UNCHANGED <<text, word_list_set, initial_parts, part_idx, part,
                   final_parts, segmented_sub_parts, current_pos, second_call>>

\* Lines 59-69
SplitBoundaries ==
    /\ pc = "start"
    /\ text # <<>>
    /\ initial_parts' = InitialParts(text)
    /\ final_parts' = <<>>
    /\ part_idx' = 0
    /\ pc' = "loop"
    /\ UNCHANGED <<text, word_list_set, part, segmented_sub_parts, current_pos,
                   result, second_call>>

\* Lines 72-74
SkipEmptyPart ==
    /\ pc = "loop"
    /\ part_idx < Len(initial_parts)
    /\ initial_parts[part_idx + 1] = <<>>
    /\ part' = initial_parts[part_idx + 1]
    /\ part_idx' = part_idx + 1
    /\ UNCHANGED <<text, word_list_set, pc, initial_parts, final_parts,
                   segmented_sub_parts, current_pos, result, second_call>>

\* Lines 72, 78-80
KnownPart ==
    /\ pc = "loop"
    /\ part_idx < Len(initial_parts)
    /\ initial_parts[part_idx + 1] # <<>>
    /\ KnownWord(initial_parts[part_idx + 1], word_list_set)
    /\ part' = initial_parts[part_idx + 1]
    /\ part_idx' = part_idx + 1
    /\ final_parts' = Append(final_parts, initial_parts[part_idx + 1])
    /\ UNCHANGED <<text, word_list_set, pc, initial_parts,
                   segmented_sub_parts, current_pos, result, second_call>>

\* Lines 72, 78, 83-84
BeginScan ==
    /\ pc = "loop"
    /\ part_idx < Len(initial_parts)
    /\ initial_parts[part_idx + 1] # <<>>
    /\ ~KnownWord(initial_parts[part_idx + 1], word_list_set)
    /\ part' = initial_parts[part_idx + 1]
    /\ part_idx' = part_idx + 1
    /\ segmented_sub_parts' = <<>>
    /\ current_pos' = 0
    /\ pc' = "scan"
    /\ UNCHANGED <<text, word_list_set, initial_parts, final_parts, result,
                   second_call>>

\* Lines 85-101, with the cursor moved one character too far
ScanMatchSkip ==
    /\ pc = "scan"
    /\ current_pos < Len(part)
    /\ LET best_match_end == BestMatchEnd(part, current_pos, word_list_set)
       IN /\ best_match_end # -1
          /\ segmented_sub_parts' =
                Append(segmented_sub_parts, Slice(part, current_pos, best_match_end))
          /\ current_pos' = best_match_end + 1
    /\ UNCHANGED <<text, word_list_set, pc, initial_parts, part_idx, part,
                   final_parts, result, second_call>>

\* Lines 85-101, with the cursor moved one character too little
ScanMatchStall ==
    /\ pc = "scan"
    /\ current_pos < Len(part)
    /\ LET best_match_end == BestMatchEnd(part, current_pos, word_list_set)
       IN /\ best_match_end # -1
          /\ segmented_sub_parts' =
                Append(segmented_sub_parts, Slice(part, current_pos, best_match_end))
          /\ current_pos' = best_match_end - 1
    /\ UNCHANGED <<text, word_list_set, pc, initial_parts, part_idx, part,
                   final_parts, result, second_call>>

\* Lines 85-101
ScanMatch ==
    /\ pc = "scan"
    /\ current_pos < Len(part)
    /\ LET best_match_end == BestMatchEnd(part, current_pos, word_list_set)
       IN /\ best_match_end # -1
          /\ segmented_sub_parts' =
                Append(segmented_sub_parts, Slice(part, current_pos, best_match_end))
          /\ current_pos' = best_match_end
    /\ UNCHANGED <<text, word_list_set, pc, initial_parts, part_idx, part,
                   final_parts, result, second_call>>

\* Lines 85-98, 102-107, with the retry the comment of line 105 rules out
ScanMissRetry ==
    /\ pc = "scan"
    /\ current_pos < Len(part)
    /\ BestMatchEnd(part, current_pos, word_list_set) = -1
    /\ segmented_sub_parts' =
          Append(segmented_sub_parts, Slice(part, current_pos, current_pos + 1))
    /\ current_pos' = current_pos + 1
    /\ UNCHANGED <<text, word_list_set, pc, initial_parts, part_idx, part,
                   final_parts, result, second_call>>

\* Lines 85-98, 102-107
ScanMiss ==
    /\ pc = "scan"
    /\ current_pos < Len(part)
    /\ BestMatchEnd(part, current_pos, word_list_set) = -1
    /\ segmented_sub_parts' =
          Append(segmented_sub_parts, Remainder(part, current_pos))
    /\ pc' = "emit"
    /\ UNCHANGED <<text, word_list_set, initial_parts, part_idx, part,
                   final_parts, current_pos, result, second_call>>

\* Line 85, condition false
ScanExit ==
    /\ pc = "scan"
    /\ current_pos >= Len(part)
    /\ pc' = "emit"
    /\ UNCHANGED <<text, word_list_set, initial_parts, part_idx, part,
                   final_parts, segmented_sub_parts, current_pos, result,
                   second_call>>

\* Lines 112-115
EmitPart ==
    /\ pc = "emit"
    /\ final_parts' = final_parts \o Emitted(part, segmented_sub_parts)
    /\ pc' = "loop"
    /\ UNCHANGED <<text, word_list_set, initial_parts, part_idx, part,
                   segmented_sub_parts, current_pos, result, second_call>>

\* Line 118
Return ==
    /\ pc = "loop"
    /\ part_idx >= Len(initial_parts)
    /\ result' = strip(join(final_parts))
    /\ pc' = "done"
    /\ UNCHANGED <<text, word_list_set, initial_parts, part_idx, part,
                   final_parts, segmented_sub_parts, current_pos, second_call>>

\* The returned string is passed to the function again, same word list
CallAgain ==
    /\ pc = "done"
    /\ ~second_call
    /\ text' = result
    /\ second_call' = TRUE
    /\ pc' = "start"
    /\ initial_parts' = <<>>
    /\ part_idx' = 0
    /\ part' = <<>>
    /\ final_parts' = <<>>
    /\ segmented_sub_parts' = <<>>
    /\ current_pos' = 0
    /\ result' = <<>>
    /\ UNCHANGED word_list_set

Next ==
    \/ ReturnEmpty
    \/ SplitBoundaries
    \/ SkipEmptyPart
    \/ KnownPart
    \/ BeginScan
    \/ ScanMatch
    \/ ScanMiss
    \/ ScanExit
    \/ EmitPart
    \/ Return
    \/ CallAgain

Spec == Init /\ [][Next]_vars

\* One pass through the while loop of line 85
ScanStep == ScanMatch \/ ScanMiss \/ ScanExit

\* The while loop runs on: nothing suspends a call of the function
FairSpec == ScanInit /\ [][Next]_vars /\ WF_vars(ScanStep)

-----------------------------------------------------------------------------
(* Vocabulary of the properties *)

HasSpace(s) == \E k \in DOMAIN s : s[k] = Space

DeleteSpaces(s) == SelectSeq(s, LAMBDA c : c # Space)

RECURSIVE Concat(_)
Concat(parts) ==
    IF parts = <<>> THEN <<>> ELSE parts[1] \o Concat(Tail(parts))

NonEmptyParts(parts) == SelectSeq(parts, LAMBDA p : p # <<>>)

IsAlnum(s) == \A k \in DOMAIN s : IsLetter(s[k]) \/ IsDigit(s[k])

\* The four transitions, read on the input itself: a cut lies between s[p]
\* and s[p+1] (1-based)
Transition(s, p) ==
    \/ IsLower(s[p]) /\ IsUpper(s[p + 1])
    \/ IsUpper(s[p]) /\ IsUpper(s[p + 1]) /\ p + 2 <= Len(s) /\ IsLower(s[p + 2])
    \/ IsLetter(s[p]) /\ IsDigit(s[p + 1])
    \/ IsDigit(s[p]) /\ IsLetter(s[p + 1])

Transitions(s) == {p \in 1..(Len(s) - 1) : Transition(s, p)}

\* Lengths of the proper prefixes of a token sequence: where the tokens cut
\* the string they concatenate to
CutPoints(parts) ==
    {Len(Concat(SubSeq(parts, 1, k))) : k \in 1..(Len(parts) - 1)}

\* Ends e of the substrings token[pos:e] that are known words
MatchEnds(p, pos, kb) ==
    {e \in (pos + 1)..Len(p) : lower(Slice(p, pos, e)) \in kb}

Largest(S) == CHOOSE e \in S : \A x \in S : x <= e

-----------------------------------------------------------------------------
(* C1 *)

\* C1 as stated: for every input string and every word set, deleting the
\* spaces of the returned string gives the input string back.
Losslessness ==
    pc = "done" => DeleteSpaces(result) = text

\* C1, amended: for every input string that holds no whitespace and every
\* word set, deleting the spaces of the returned string gives the input
\* string back, character for character and in the original case.
LosslessnessWithoutWhitespace ==
    (pc = "done" /\ ~HasSpace(text)) => DeleteSpaces(result) = text

LosslessnessWitness ==
    /\ pc = "done"
    /\ ~second_call
    /\ ~HasSpace(text)
    /\ HasSpace(result)
    /\ Len(segmented_sub_parts) > 1

-----------------------------------------------------------------------------
(* C2 *)

\* C2 as stated: every input whose lowercase form is a known word is
\* returned unchanged, whatever case or letter/digit transitions it holds.
IdentityOnKnownWords ==
    (pc = "done" /\ lower(text) \in word_list_set) => result = text

\* C2, amended: every input whose lowercase form is a known word and which
\* holds no whitespace and none of the four boundary transitions is returned
\* unchanged.
IdentityOnKnownWordsWithoutTransition ==
    (/\ pc = "done"
     /\ lower(text) \in word_list_set
     /\ ~HasSpace(text)
     /\ Transitions(text) = {})
        => result = text

IdentityOnKnownWordsWitness ==
    /\ pc = "done"
    /\ ~second_call
    /\ lower(text) \in word_list_set
    /\ text # lower(text)
    /\ Transitions(text) = {}
    /\ MatchEnds(text, 0, word_list_set) \ {Len(text)} # {}
    /\ result = text

-----------------------------------------------------------------------------
(* C3 *)

\* C3: with an empty word set the returned string is the boundary-split
\* tokens of the input joined by single spaces: the scan splits no token.
NoOpOnEmptyKnowledgeBase ==
    (pc = "done" /\ word_list_set = {})
        => result = join(NonEmptyParts(InitialParts(text)))

NoOpOnEmptyKnowledgeBaseWitness ==
    /\ pc = "done"
    /\ ~second_call
    /\ word_list_set = {}
    /\ Len(initial_parts) > 1
    /\ \E k \in DOMAIN initial_parts : Len(initial_parts[k]) > 1
    /\ result = join(initial_parts)

-----------------------------------------------------------------------------
(* C4 *)

\* C4: at a cursor position where some substring starting there is a known
\* word, the scan emits the longest such substring in its original casing
\* and moves the cursor to its end; a token that is itself a known word is
\* added as the single segment it is ("them" stays "them").
GreedyLongestMatch ==
    /\ [][(/\ pc = "scan"
           /\ current_pos < Len(part)
           /\ MatchEnds(part, current_pos, word_list_set) # {})
             => LET e == Largest(MatchEnds(part, current_pos, word_list_set))
                IN /\ segmented_sub_parts' =
                        Append(segmented_sub_parts, Slice(part, current_pos, e))
                   /\ current_pos' = e
                   /\ pc' = "scan"]_vars
    /\ [][(/\ pc = "loop"
           /\ part_idx < Len(initial_parts)
           /\ initial_parts[part_idx + 1] # <<>>
           /\ lower(initial_parts[part_idx + 1]) \in word_list_set)
             => /\ final_parts' = Append(final_parts, initial_parts[part_idx + 1])
                /\ pc' = "loop"]_vars
    /\ []((pc = "done" /\ text = them /\ word_list_set = kbThem)
             => result = them)

GreedyLongestMatchWitness ==
    /\ pc = "scan"
    /\ Len(segmented_sub_parts) = 2
    /\ Len(segmented_sub_parts[2]) = 2
    /\ lower(SubSeq(segmented_sub_parts[2], 1, 1)) \in word_list_set
    /\ current_pos = Len(segmented_sub_parts[1]) + 2

-----------------------------------------------------------------------------
(* C5 *)

\* C5: when the scan of a token has stopped, every segment but possibly the
\* last is a known word; the last one is unmatched exactly when the cursor
\* stopped short of the token's end, and it is then the rest of the token
\* from the cursor, where no substring is a known word ("goldfishxyz" gives
\* gold, fish, xyz).
UnmatchedRemainderStopRule ==
    pc = "emit" =>
        LET segs == segmented_sub_parts
            n == Len(segs)
        IN /\ \A k \in 1..(n - 1) : lower(segs[k]) \in word_list_set
           /\ current_pos < Len(part) =>
                /\ n >= 1
                /\ MatchEnds(part, current_pos, word_list_set) = {}
                /\ segs[n] = Slice(part, current_pos, Len(part))
                /\ Len(Concat(SubSeq(segs, 1, n - 1))) = current_pos
           /\ current_pos >= Len(part) =>
                \A k \in 1..n : lower(segs[k]) \in word_list_set
           /\ (part = goldfishxyz /\ word_list_set = kbGoldFish) =>
                segs = <<SubSeq(goldfishxyz, 1, 4), SubSeq(goldfishxyz, 5, 8),
                         SubSeq(goldfishxyz, 9, 11)>>

UnmatchedRemainderStopRuleWitness ==
    /\ pc = "emit"
    /\ Len(segmented_sub_parts) = 3
    /\ current_pos < Len(part)
    /\ MatchEnds(part, current_pos + 1, word_list_set) # {}

-----------------------------------------------------------------------------
(* C6 *)

\* C6: a scan that ends with exactly one segment adds the token itself,
\* unchanged, to the output; a scan that ends with more than one segment
\* adds those segments as they are, in order ("qzqzqz" stays "qzqzqz").
SingleMatchSuppression ==
    /\ [][pc = "emit" =>
            /\ Len(segmented_sub_parts) = 1 =>
                  final_parts' = Append(final_parts, part)
            /\ Len(segmented_sub_parts) > 1 =>
                  final_parts' = final_parts \o segmented_sub_parts]_vars
    /\ [](pc = "emit" => Len(segmented_sub_parts) >= 1)
    /\ []((pc = "done" /\ text = qzqzqz /\ word_list_set = kbGoldFish)
             => result = qzqzqz)

SingleMatchSuppressionWitness ==
    /\ pc = "loop"
    /\ Len(segmented_sub_parts) = 2
    /\ Len(final_parts) = 3
    /\ final_parts[1] = initial_parts[1]
    /\ SubSeq(final_parts, 2, 3) = segmented_sub_parts
    /\ part_idx = 2

-----------------------------------------------------------------------------
(* C7 *)

\* C7: for an input of ASCII letters and digits the tokens are non-empty,
\* concatenate to the input, and are cut exactly at the four transitions
\* ("HTMLParserGame2000" gives HTML, Parser, Game, 2000).
BoundaryCutPoints ==
    (pc \in {"loop", "scan", "emit"} /\ IsAlnum(text)) =>
        /\ \A k \in DOMAIN initial_parts : initial_parts[k] # <<>>
        /\ Concat(initial_parts) = text
        /\ CutPoints(initial_parts) = Transitions(text)
        /\ Transitions(text) = {} => initial_parts = <<text>>
        /\ text = HTMLParserGame2000 =>
             initial_parts = <<SubSeq(text, 1, 4), SubSeq(text, 5, 10),
                               SubSeq(text, 11, 14), SubSeq(text, 15, 18)>>

BoundaryCutPointsWitness ==
    /\ pc = "loop"
    /\ IsAlnum(text)
    /\ Len(initial_parts) = 2
    /\ IsUpper(text[1])
    /\ IsUpper(text[2])
    /\ Len(initial_parts[1]) = 1

-----------------------------------------------------------------------------
(* C8 *)

\* C8: while a token is scanned the segments emitted so far concatenate to
\* token[0:pos], in the original casing; when the scan has stopped they
\* concatenate to the token.
SegmentReconstruction ==
    /\ pc = "scan" =>
          /\ current_pos <= Len(part)
          /\ Concat(segmented_sub_parts) = Slice(part, 0, current_pos)
    /\ pc = "emit" => Concat(segmented_sub_parts) = part

SegmentReconstructionWitness ==
    /\ pc = "emit"
    /\ Len(segmented_sub_parts) = 2
    /\ current_pos < Len(part)
    /\ part # lower(part)

-----------------------------------------------------------------------------
(* C9 *)

\* C9: the scan of a token starts at cursor 0; every matched step moves the
\* cursor strictly forward and no step moves it back; the scan always comes
\* to its end, with the cursor at the token's length or right after one
\* unmatched remainder was emitted.  This holds for every word set, one
\* holding the empty string included.
ScanTerminates ==
    /\ [][(pc # "scan" /\ pc' = "scan") =>
             (current_pos' = 0 /\ segmented_sub_parts' = <<>>)]_vars
    /\ [][(pc = "scan" /\ pc' = "scan") => current_pos' > current_pos]_vars
    /\ [][pc = "scan" => (current_pos' >= current_pos /\ pc' \in {"scan", "emit"})]_vars
    /\ [][(pc = "scan" /\ pc' = "emit") =>
             \/ current_pos' = Len(part) /\ UNCHANGED segmented_sub_parts
             \/ /\ current_pos' < Len(part)
                /\ segmented_sub_parts' =
                      Append(segmented_sub_parts,
                             Slice(part, current_pos, Len(part)))]_vars
    /\ (pc = "scan") ~> (pc = "emit")

ScanTerminatesWitness ==
    /\ pc = "emit"
    /\ <<>> \in word_list_set
    /\ current_pos = Len(part)
    /\ Len(segmented_sub_parts) = 3

-----------------------------------------------------------------------------
(* C10 *)

\* C10: the function is idempotent: given its own result and the same word
\* set it returns that result unchanged.
Idempotence ==
    (pc = "done" /\ second_call) => result = text

IdempotenceWitness ==
    /\ pc = "done"
    /\ second_call
    /\ HasSpace(text)
    /\ Len(initial_parts) = 3
    /\ \E k \in DOMAIN initial_parts : ~KnownWord(initial_parts[k], word_list_set)
    /\ result = text

=============================================================================
